---- MODULE Spec2Model ----
(***************************************************************************)
(* A model of numpy/_core/include/numpy/npy_2_compat.h: the compile-time   *)
(* version gate (the preprocessor walking the header for one build         *)
(* configuration), the import helper PyArray_ImportNumPyAPI called from    *)
(* several threads, and the version-sensitive accessors NPY_DEFAULT_INT,   *)
(* NPY_RAVEL_AXIS, NPY_MAXARGS and PyDataType_FLAGS.                       *)
(***************************************************************************)
EXTENDS Integers, Sequences, FiniteSets

(* ------------------------------------------------------------------ *)
(* Bounds of the model                                                 *)
(* ------------------------------------------------------------------ *)
NThreads == 2
MaxOps == 5

Threads == 1..NThreads

(* ------------------------------------------------------------------ *)
(* Constants of the header                                             *)
(* ------------------------------------------------------------------ *)
\* #define NPY_2_0_API_VERSION 0x00000012
NPY_2_0_API_VERSION == 18
\* the literal 0x02000000 the header compares NPY_ABI_VERSION with
NPY_2_0_ABI_VERSION == 33554432
\* NPY_MIN_INT is C's INT_MIN (a 32-bit int); the header only names it
NPY_MIN_INT == -2147483647 - 1

\* Build configurations: feature versions 0x11 (1.25), 0x12 (2.0), 0x13;
\* ABI versions 0x01000009 (every 1.x release) and 0x02000000 (2.x).
FeatureVersions == {17, 18, 19}
AbiVersions == {16777225, 33554432}
\* C-API versions a host library may report at run time.
HostVersions == {17, 18, 19}
\* Values of a C char field (signed char)
Chars == {-1, 0, 27}

Symbols == {"NPY_DEFAULT_INT", "NPY_RAVEL_AXIS", "NPY_MAXARGS", "PyDataType_FLAGS"}
NULL == "NULL"

VARIABLES
    feature_defined,        \* whether NPY_FEATURE_VERSION is defined at the include
    NPY_FEATURE_VERSION,    \* compile-time constant of the build
    NPY_ABI_VERSION,        \* compile-time constant of the build
    hostVersion,            \* the C-API version of the library loaded at run time
    importOK,               \* whether _import_array() succeeds in this process
    ppc,                    \* the preprocessor's position in the header
    taken,                  \* whether a group of the #if at line 105 was taken
    defs,                   \* symbol -> number of definitions compiled in
    branch,                 \* the branches of lines 105-148 compiled in, in order
    macros,                 \* macros lines 52-64 defined
    PyArray_API,            \* the native API handle: NULL or the host's table
    runtime_static,         \* the 2.x headers' static int PyArray_RUNTIME_VERSION
    pc,                     \* thread -> "idle" | "import" (inside the helper, line 77)
    ret,                    \* thread -> <<>>, or <<v>>: its last completed helper call returned v
    last,                   \* the last accessor evaluation
    rtSeen,                 \* runtime versions the accessors have read
    nImports,               \* how many times an import wrote the shared state
    ops                     \* operations performed so far (bounded by MaxOps)

config == <<feature_defined, NPY_FEATURE_VERSION, NPY_ABI_VERSION, hostVersion, importOK>>
pp == <<ppc, taken, defs, branch, macros>>
rt == <<PyArray_API, runtime_static, pc, ret, last, rtSeen, nImports, ops>>
vars == <<config, pp, rt>>

NoObj == [layout |-> "none", proto |-> 0, descr |-> 0]
NoEval == [acc |-> "none", val |-> 0, read |-> FALSE, thread |-> 0, obj |-> NoObj]

Init ==
    /\ feature_defined \in BOOLEAN
    \* an identifier that is not defined evaluates to 0 in an #if
    /\ NPY_FEATURE_VERSION \in (IF feature_defined THEN FeatureVersions ELSE {0})
    /\ NPY_ABI_VERSION \in AbiVersions
    /\ hostVersion \in HostVersions
    /\ importOK \in BOOLEAN
    /\ ppc = "check_feature"
    /\ taken = FALSE
    /\ defs = [s \in Symbols |-> 0]
    /\ branch = <<>>
    /\ macros = {}
    /\ PyArray_API = NULL
    /\ runtime_static = 0
    /\ pc = [t \in Threads |-> "idle"]
    /\ ret = [t \in Threads |-> <<>>]
    /\ last = NoEval
    /\ rtSeen = {}
    /\ nImports = 0
    /\ ops = 0

(* ------------------------------------------------------------------ *)
(* The preprocessor                                                    *)
(* ------------------------------------------------------------------ *)

\* lines 44-50: #ifndef NPY_FEATURE_VERSION / #error
PP_CheckFeature ==
    /\ ppc = "check_feature"
    /\ ppc' = IF feature_defined THEN "abi_compat" ELSE "error"
    /\ UNCHANGED <<config, taken, defs, branch, macros, rt>>

\* line 52 and line 115: NPY_ABI_VERSION < 0x02000000
AbiIsLegacy_feature_threshold(abi) == abi < NPY_2_0_API_VERSION
AbiIsLegacy(abi) == abi < NPY_2_0_ABI_VERSION

\* lines 52-64: the 1.x headers lack NPY_2_0_API_VERSION and PyArray_RUNTIME_VERSION
PP_AbiCompat ==
    /\ ppc = "abi_compat"
    /\ macros' = IF AbiIsLegacy(NPY_ABI_VERSION)
                 THEN {"NPY_2_0_API_VERSION", "PyArray_RUNTIME_VERSION"}
                 ELSE {}
    /\ ppc' = "if"
    /\ UNCHANGED <<config, taken, defs, branch, rt>>

Define(b) ==
    /\ branch' = Append(branch, b)
    /\ defs' = [s \in Symbols |-> defs[s] + 1]
    /\ taken' = TRUE

Skip == UNCHANGED <<taken, defs, branch>>

\* line 105: NPY_FEATURE_VERSION >= NPY_2_0_API_VERSION
FeatureIsNew_strict(f) == f > NPY_2_0_API_VERSION
FeatureIsNew(f) == f >= NPY_2_0_API_VERSION

\* an #elif group is compiled when no earlier group was and its condition holds
ElifActive_ignores_taken(tk, cond) == cond
ElifActive(tk, cond) == ~tk /\ cond

\* an #else group is compiled when no earlier group was
ElseActive(tk) == ~tk

\* lines 105-114
PP_If ==
    /\ ppc = "if"
    /\ IF FeatureIsNew(NPY_FEATURE_VERSION) THEN Define("new_only") ELSE Skip
    /\ ppc' = "elif"
    /\ UNCHANGED <<config, macros, rt>>

\* lines 115-128
PP_Elif ==
    /\ ppc = "elif"
    /\ IF ElifActive(taken, AbiIsLegacy(NPY_ABI_VERSION))
       THEN Define("legacy_only") ELSE Skip
    /\ ppc' = "else"
    /\ UNCHANGED <<config, macros, rt>>

\* lines 129-148
PP_Else ==
    /\ ppc = "else"
    /\ IF ElseActive(taken) THEN Define("dual_path") ELSE Skip
    /\ ppc' = "done"
    /\ UNCHANGED <<config, macros, rt>>

Compiled == ppc = "done"
Selected(b) == Compiled /\ branch = <<b>>

(* ------------------------------------------------------------------ *)
(* Run time: the shared state                                          *)
(* ------------------------------------------------------------------ *)

\* line 63: with 1.x headers PyArray_RUNTIME_VERSION is NPY_FEATURE_VERSION;
\* otherwise it is the static the import fills in
PyArray_RUNTIME_VERSION ==
    IF "PyArray_RUNTIME_VERSION" \in macros THEN NPY_FEATURE_VERSION ELSE runtime_static

\* whether the runtime version is available to read
Captured == "PyArray_RUNTIME_VERSION" \in macros \/ PyArray_API # NULL

\* the generation of a C-API version
Generation(v) == IF v >= NPY_2_0_API_VERSION THEN "current" ELSE "legacy"

\* line 76: PyArray_API == NULL
NeedsImport_always == TRUE
NeedsImport == PyArray_API = NULL

\* lines 77-79: import_array1(-1) returns -1 out of the helper when the import
\* fails; otherwise the helper goes on to return 0
ImportNumPyAPI_Return_zero(ok) == 0
ImportNumPyAPI_Return(ok) == IF ok THEN 0 ELSE -1

\* lines 73-76: a thread enters the helper and tests the handle
ImportNumPyAPI_Enter(t) ==
    /\ Compiled
    /\ pc[t] = "idle"
    /\ ops < MaxOps
    /\ ops' = ops + 1
    /\ IF NeedsImport
       THEN /\ pc' = [pc EXCEPT ![t] = "import"]
            /\ ret' = ret
       ELSE /\ pc' = pc
            /\ ret' = [ret EXCEPT ![t] = <<0>>]
    /\ UNCHANGED <<config, pp, PyArray_API, runtime_static, last, rtSeen, nImports>>

\* _import_array(): fills in the handle and captures the host's version
ImportArray ==
    /\ PyArray_API' = "table"
    /\ runtime_static' = IF "PyArray_RUNTIME_VERSION" \in macros
                         THEN runtime_static ELSE hostVersion
    /\ nImports' = nImports + 1

\* lines 77-79: the import, and the helper's return
ImportNumPyAPI_Import(t) ==
    /\ pc[t] = "import"
    /\ IF importOK
       THEN ImportArray
       ELSE UNCHANGED <<PyArray_API, runtime_static, nImports>>
    /\ ret' = [ret EXCEPT ![t] = <<ImportNumPyAPI_Return(importOK)>>]
    /\ pc' = [pc EXCEPT ![t] = "idle"]
    /\ UNCHANGED <<config, pp, last, rtSeen, ops>>

(* ------------------------------------------------------------------ *)
(* The accessors, per branch of lines 105-148                          *)
(* ------------------------------------------------------------------ *)

\* whether a branch's accessors mention PyArray_RUNTIME_VERSION
UsesRuntime(b) ==
    CASE b = "new_only" -> FALSE        \* lines 106-114
      [] b = "legacy_only" -> FALSE     \* lines 116-124
      [] b = "dual_path" -> TRUE        \* lines 130-147

\* lines 106, 116, 130-131
NPY_DEFAULT_INT(b, rv) ==
    CASE b = "new_only" -> "NPY_INTP"
      [] b = "legacy_only" -> "NPY_LONG"
      [] b = "dual_path" -> IF rv >= NPY_2_0_API_VERSION THEN "NPY_INTP" ELSE "NPY_LONG"

\* lines 107, 117, 132-133
NPY_RAVEL_AXIS_same_sentinel(b, rv) ==
    CASE b = "new_only" -> NPY_MIN_INT
      [] b = "legacy_only" -> 32
      [] b = "dual_path" -> IF rv >= NPY_2_0_API_VERSION THEN 32 ELSE 32
NPY_RAVEL_AXIS(b, rv) ==
    CASE b = "new_only" -> NPY_MIN_INT
      [] b = "legacy_only" -> 32
      [] b = "dual_path" -> IF rv >= NPY_2_0_API_VERSION THEN -1 ELSE 32

\* lines 108, 118, 134-135
NPY_MAXARGS(b, rv) ==
    CASE b = "new_only" -> 64
      [] b = "legacy_only" -> 32
      [] b = "dual_path" -> IF rv >= NPY_2_0_API_VERSION THEN 64 ELSE 32

\* (unsigned char)c, widened to npy_uint64
UnsignedChar(c) == c % 256

\* The layout a struct name denotes. PyArray_DescrProto is the 1.x layout: the
\* 2.x headers declare it, and with 1.x headers line 128 makes it PyArray_Descr.
\* PyArray_Descr is the layout of the headers the build includes.
StructLayout(name, abi) ==
    CASE name = "PyArray_DescrProto" -> "legacy"
      [] name = "PyArray_Descr" -> IF AbiIsLegacy(abi) THEN "legacy" ELSE "current"

\* ((T *)dtype)->flags: the field of the layout T denotes
FlagsField(name, abi, obj) ==
    IF StructLayout(name, abi) = "legacy" THEN obj.proto ELSE obj.descr

\* lines 110-114, 120-124, 137-147
PyDataType_FLAGS_one_struct(b, abi, rv, obj) ==
    UnsignedChar(FlagsField("PyArray_Descr", abi, obj))
PyDataType_FLAGS(b, abi, rv, obj) ==
    CASE b = "new_only" -> UnsignedChar(FlagsField("PyArray_Descr", abi, obj))
      [] b = "legacy_only" -> UnsignedChar(FlagsField("PyArray_Descr", abi, obj))
      [] b = "dual_path" ->
            IF rv >= NPY_2_0_API_VERSION
            THEN UnsignedChar(FlagsField("PyArray_Descr", abi, obj))
            ELSE UnsignedChar(FlagsField("PyArray_DescrProto", abi, obj))

\* The descriptors the host library hands out: the flags byte f sits in the
\* field of the host's own layout, and the other layout's field position
\* holds some other byte o of the object.
HostDescriptors ==
    { IF Generation(hostVersion) = "legacy"
      THEN [layout |-> "legacy", proto |-> f, descr |-> o]
      ELSE [layout |-> "current", proto |-> o, descr |-> f] : f \in Chars, o \in Chars }

\* the flags byte the host stored in a descriptor
StoredFlags(obj) == IF obj.layout = "legacy" THEN obj.proto ELSE obj.descr

\* the value accessor acc gives in a build that compiled branch b with the
\* headers of ABI version abi, when PyArray_RUNTIME_VERSION is rv
AccessorValue(b, abi, rv, acc, obj) ==
    CASE acc = "NPY_DEFAULT_INT" -> NPY_DEFAULT_INT(b, rv)
      [] acc = "NPY_RAVEL_AXIS" -> NPY_RAVEL_AXIS(b, rv)
      [] acc = "NPY_MAXARGS" -> NPY_MAXARGS(b, rv)
      [] acc = "PyDataType_FLAGS" -> PyDataType_FLAGS(b, abi, rv, obj)

\* the value an accessor of this build gives
Value(acc, obj) ==
    AccessorValue(branch[1], NPY_ABI_VERSION, PyArray_RUNTIME_VERSION, acc, obj)

\* PyArray_RUNTIME_VERSION >= NPY_2_0_API_VERSION in lines 131, 133, 135, 140:
\* a read of the runtime version
ReadRuntime_assigns ==
    /\ rtSeen' = rtSeen \cup {PyArray_RUNTIME_VERSION}
    /\ runtime_static' = NPY_2_0_API_VERSION
ReadRuntime ==
    /\ rtSeen' = rtSeen \cup {PyArray_RUNTIME_VERSION}
    /\ UNCHANGED runtime_static

\* A thread whose import helper returned 0 evaluates an accessor
Eval(t, acc, obj) ==
    /\ Compiled
    /\ pc[t] = "idle"
    /\ ret[t] = <<0>>
    /\ ops < MaxOps
    /\ ops' = ops + 1
    /\ last' = [acc |-> acc, val |-> Value(acc, obj), read |-> UsesRuntime(branch[1]),
                thread |-> t, obj |-> obj]
    /\ IF UsesRuntime(branch[1]) THEN ReadRuntime ELSE UNCHANGED <<rtSeen, runtime_static>>
    /\ UNCHANGED <<config, pp, PyArray_API, pc, ret, nImports>>

Eval_NPY_DEFAULT_INT(t) == Eval(t, "NPY_DEFAULT_INT", NoObj)
Eval_NPY_RAVEL_AXIS(t) == Eval(t, "NPY_RAVEL_AXIS", NoObj)
Eval_NPY_MAXARGS(t) == Eval(t, "NPY_MAXARGS", NoObj)
Eval_PyDataType_FLAGS(t) == \E obj \in HostDescriptors : Eval(t, "PyDataType_FLAGS", obj)

Next ==
    \/ PP_CheckFeature
    \/ PP_AbiCompat
    \/ PP_If
    \/ PP_Elif
    \/ PP_Else
    \/ \E t \in Threads : ImportNumPyAPI_Enter(t)
    \/ \E t \in Threads : ImportNumPyAPI_Import(t)
    \/ \E t \in Threads : Eval_NPY_DEFAULT_INT(t)
    \/ \E t \in Threads : Eval_NPY_RAVEL_AXIS(t)
    \/ \E t \in Threads : Eval_NPY_MAXARGS(t)
    \/ \E t \in Threads : Eval_PyDataType_FLAGS(t)

Spec == Init /\ [][Next]_vars

(* ------------------------------------------------------------------ *)
(* Properties                                                          *)
(* ------------------------------------------------------------------ *)

DualBuild == Selected("dual_path")
Evaluated(acc) == last.acc = acc
LegacyAbis == {a \in AbiVersions : a < NPY_2_0_ABI_VERSION}
CurrentAbis == {a \in AbiVersions : a >= NPY_2_0_ABI_VERSION}

\* what the build fixed to the generation of runtime version rv gives: the
\* legacy-only build (1.x headers) or the new-only build (2.x headers)
FixedBuildValues(rv, acc, obj) ==
    IF rv < NPY_2_0_API_VERSION
    THEN {AccessorValue("legacy_only", a, rv, acc, obj) : a \in LegacyAbis}
    ELSE {AccessorValue("new_only", a, rv, acc, obj) : a \in CurrentAbis}

\* C1: in a dual-path build every accessor gives, for a runtime version below
\* NPY_2_0_API_VERSION, the result of the legacy-only build and, for a runtime
\* version at or above it, the result of the new-only build.
C1_DualMatchesFixedBuilds ==
    (DualBuild /\ last.acc \in Symbols) =>
        FixedBuildValues(PyArray_RUNTIME_VERSION, last.acc, last.obj) = {last.val}

\* The statement of C1 holds of the three accessors other than NPY_RAVEL_AXIS,
\* and of NPY_RAVEL_AXIS on a legacy runtime.
C1_HoldsExceptCurrentRavelAxis ==
    (DualBuild /\ last.acc \in Symbols
        /\ ~(last.acc = "NPY_RAVEL_AXIS" /\ PyArray_RUNTIME_VERSION >= NPY_2_0_API_VERSION)) =>
        FixedBuildValues(PyArray_RUNTIME_VERSION, last.acc, last.obj) = {last.val}

\* the branch the priority policy names for a pair (feature version, ABI version)
Policy(f, abi) ==
    IF f >= NPY_2_0_API_VERSION THEN "new_only"
    ELSE IF abi < NPY_2_0_ABI_VERSION THEN "legacy_only"
    ELSE "dual_path"

\* C2: the gate follows the priority policy for every pair (feature version,
\* declared ABI version), each version compared with the threshold of its own
\* numbering (NPY_2_0_API_VERSION for the feature version, 0x02000000 for the
\* ABI version): feature version at or above its threshold selects new-only
\* whatever the ABI version; otherwise an ABI version below its threshold
\* selects legacy-only; otherwise dual-path is selected; and only dual-path
\* accessors read the runtime version.
C2_GatePriorityPolicy ==
    Compiled =>
        /\ branch = <<Policy(NPY_FEATURE_VERSION, NPY_ABI_VERSION)>>
        /\ (last.read \/ rtSeen # {}) => branch = <<"dual_path">>
        /\ (branch = <<"dual_path">> /\ last.acc \in Symbols) => last.read

C2_Witness ==
    /\ DualBuild
    /\ Evaluated("NPY_MAXARGS")
    /\ rtSeen = {hostVersion}
    /\ NPY_FEATURE_VERSION < NPY_2_0_API_VERSION

\* C3: for every build configuration in which the feature version is defined
\* the gate compiles exactly one definition of each version-sensitive symbol:
\* never none once the header is processed, never more than one.
C3_ExactlyOneDefinition ==
    /\ \A s \in Symbols : defs[s] <= 1
    /\ Compiled => \A s \in Symbols : defs[s] = 1
    /\ Compiled => Len(branch) = 1

\* both the #if condition and the #elif condition hold in this configuration
C3_Witness ==
    /\ Compiled
    /\ NPY_FEATURE_VERSION >= NPY_2_0_API_VERSION
    /\ NPY_ABI_VERSION < NPY_2_0_ABI_VERSION
    /\ \A s \in Symbols : defs[s] = 1

\* C4: under concurrent first use, each thread calling PyArray_ImportNumPyAPI
\* and then accessors, the import writes the shared state at most once per
\* process and every accessor in every thread observes one runtime version.
C4_ImportWrittenAtMostOnce ==
    /\ nImports <= 1
    /\ Cardinality(rtSeen) <= 1

\* The second half of C4 alone: every accessor observes the host's version.
C4_OneRuntimeVersionObserved == (DualBuild => rtSeen \subseteq {hostVersion})

\* C5: once the runtime version is captured no operation of the layer
\* (helper calls, accessor evaluations, in any order and number) changes it,
\* and every read of PyArray_RUNTIME_VERSION returns the same value.
C5_RuntimeVersionWriteOnce ==
    [][ /\ Captured => PyArray_RUNTIME_VERSION' = PyArray_RUNTIME_VERSION
        /\ Cardinality(rtSeen') <= 1 ]_vars

\* captured once, then a redundant helper call and accessor reads
C5_Witness ==
    /\ DualBuild
    /\ nImports = 1
    /\ \A t \in Threads : ret[t] = <<0>>
    /\ rtSeen = {hostVersion}
    /\ ops = MaxOps

\* C6: a call of PyArray_ImportNumPyAPI made when the handle is already set
\* performs no import, leaves the handle and the runtime version unchanged
\* and returns 0; and once a call has returned, further calls leave the
\* handle and the runtime version as that call left them.
C6_RedundantImportIsNoOp ==
    [][ \A t \in Threads :
          /\ (ImportNumPyAPI_Enter(t) /\ PyArray_API # NULL) =>
                /\ PyArray_API' = PyArray_API
                /\ runtime_static' = runtime_static
                /\ nImports' = nImports
                /\ pc'[t] = "idle"
                /\ ret'[t] = <<0>>
          /\ ((\E u \in Threads : ret[u] # <<>>)
                /\ (ImportNumPyAPI_Enter(t) \/ ImportNumPyAPI_Import(t))) =>
                /\ PyArray_API' = PyArray_API
                /\ runtime_static' = runtime_static ]_vars

\* only helper calls so far, one import, and every thread was answered 0
C6_Witness ==
    /\ nImports = 1
    /\ last = NoEval
    /\ \A t \in Threads : ret[t] = <<0>> /\ pc[t] = "idle"
    /\ ops > NThreads

\* C7: for a descriptor in the legacy layout PyDataType_FLAGS gives the same
\* value compiled on the legacy-only path as compiled on the dual-path branch
\* and resolved to legacy at run time: the flags byte stored in it.
C7_FlagsCrossPathConsistent ==
    (/\ Evaluated("PyDataType_FLAGS")
     /\ last.obj.layout = "legacy"
     /\ \/ Selected("legacy_only")
        \/ DualBuild /\ PyArray_RUNTIME_VERSION < NPY_2_0_API_VERSION) =>
        /\ \A a \in LegacyAbis :
              last.val = PyDataType_FLAGS("legacy_only", a, NPY_FEATURE_VERSION, last.obj)
        /\ \A a \in CurrentAbis : \A r \in HostVersions :
              r < NPY_2_0_API_VERSION =>
                  last.val = PyDataType_FLAGS("dual_path", a, r, last.obj)
        /\ last.val = UnsignedChar(StoredFlags(last.obj))

\* a dual-path read of a legacy descriptor whose two field positions differ
C7_Witness ==
    /\ DualBuild
    /\ Evaluated("PyDataType_FLAGS")
    /\ PyArray_RUNTIME_VERSION < NPY_2_0_API_VERSION
    /\ last.obj = [layout |-> "legacy", proto |-> -1, descr |-> 27]
    /\ last.val = 255

DefinedValues(acc) ==
    CASE acc = "NPY_DEFAULT_INT" -> {"NPY_INTP", "NPY_LONG"}
      [] acc = "NPY_RAVEL_AXIS" -> {NPY_MIN_INT, -1, 32}
      [] acc = "NPY_MAXARGS" -> {32, 64}
      [] acc = "PyDataType_FLAGS" -> 0..255

C9_RavelAxisSentinels ==
    (DualBuild /\ Evaluated("NPY_RAVEL_AXIS")) =>
        \A r \in HostVersions :
            ((r < 18) = (PyArray_RUNTIME_VERSION < 18))
                <=> (NPY_RAVEL_AXIS("dual_path", r) = last.val)

\* the sentinel read at the threshold itself
C9_Witness ==
    /\ DualBuild
    /\ Evaluated("NPY_RAVEL_AXIS")
    /\ PyArray_RUNTIME_VERSION = NPY_2_0_API_VERSION
    /\ last.val = -1

LegacyCompatMacros ==
    /\ macros = {"NPY_2_0_API_VERSION", "PyArray_RUNTIME_VERSION"}
    /\ NPY_2_0_API_VERSION = 18
    /\ PyArray_RUNTIME_VERSION = NPY_FEATURE_VERSION

LegacyValues ==
    /\ branch = <<"legacy_only">>
    /\ Evaluated("NPY_DEFAULT_INT") => last.val = "NPY_LONG"
    /\ Evaluated("NPY_RAVEL_AXIS") => last.val = 32
    /\ Evaluated("NPY_MAXARGS") => last.val = 32

====
